---------------------------- MODULE Spec2Model ----------------------------
(***************************************************************************)
(* Model of the client-side telemetry pipeline of Scrum.io                 *)
(* (src/frontend/frontend/src/main.jsx, the Telemetry singleton, lines     *)
(* 59-145): the in-memory event buffer, its snapshot in localStorage, the  *)
(* session identifier in sessionStorage, the periodic flush timer, the     *)
(* flush requests in flight and the sink's responses.                      *)
(*                                                                         *)
(* One JavaScript page load is one life of the module's closure: a page    *)
(* reload re-runs lines 59-145 (enabled = true, buffer = load(), a new     *)
(* interval) and drops every continuation that was awaiting a response.    *)
(* localStorage survives reloads and sessions; sessionStorage survives     *)
(* reloads and is empty in a new browsing session.                         *)
(*                                                                         *)
(* A storage text is represented by the value it encodes: a record         *)
(* [kind, items] where kind tells what JSON.parse makes of the text.       *)
(***************************************************************************)
EXTENDS Integers, Sequences, FiniteSets, TLC

(* ------------------------------ bounds -------------------------------- *)

\* Number of Telemetry.log calls explored.
MaxEvents == 4

\* Number of flush requests awaiting a response at the same time.
MaxInflight == 2

\* Number of Telemetry.log calls explored within a single page load.
MaxBurst == 5

(* ------------------------- program constants -------------------------- *)

\* BUF_MAX (main.jsx:62) is 2000 in the source; scaled to 3 so that the
\* cap is exceeded within MaxEvents log calls.
BUF_MAX == 3

\* The batch size of flush, buffer.slice(0, 200) (main.jsx:94); scaled to
\* 2, keeping it below BUF_MAX as in the source.
FLUSH_BATCH == 2

(* ------------------------------ values -------------------------------- *)

\* sessionStorage.getItem returns null for a missing key.
NULL == "<null>"

\* What Math.random().toString(36).slice(2) can return (main.jsx:71): the
\* digits after "0." in base 36, and the empty string when Math.random()
\* returns 0 ("0".slice(2)).
Tokens == {"", "k7f3"}

\* JavaScript truthiness of the value read at main.jsx:69-70: null and the
\* empty string are falsy.
Truthy(s) == s # NULL /\ s # ""

\* useState(null) at main.jsx:827.
NoAnalytics == [kind |-> "null"]

ListVal(s) == [kind |-> "list", items |-> s]
NonList(k) == [kind |-> k, items |-> <<>>]

\* The kinds of text the buffer key can hold that the program did not write
\* itself: no item, text that JSON.parse rejects, and JSON that is no array.
CorruptStored == {NonList(k) : k \in {"garbage", "null", "number", "object"}}

VARIABLES
    buffer,        \* the closure variable `buffer` (main.jsx:84)
    stored,        \* localStorage["telemetry_buffer_v2"]
    sessionStore,  \* sessionStorage["telemetry_session_id"], or NULL
    enabled,       \* the closure variable `enabled` (main.jsx:65)
    timerActive,   \* the interval of main.jsx:119 has not been cleared
    inflight,      \* flush calls suspended at the await of main.jsx:96: the
                   \* batch and session of the request body, and (history) the
                   \* id of the first event created after the request was built
    nextId,        \* the next event to be created by log
    \* history variables, read by the properties only
    enqueued,      \* every event pushed onto the in-memory buffer, in order
    removed,       \* ids of the events a flush sliced off the buffer
    acked,         \* ids of the events of batches answered with res.ok
    seen,          \* values getSession returned in this browsing session
    failedSession, \* a submission failed in this browsing session
    failedLoad,    \* a submission failed in this page load
    reloads,       \* page loads after the first: 0, 1, 2 (= two or more)
    last,          \* the operation that made the last step and its outcome
    overlap,       \* a request now in flight shared its flight with another
    \* the App component (main.jsx:787-3443)
    flushButton,   \* the "Flush telemetry" button is in the rendered header
    tasks,         \* the state `tasks` (main.jsx:823)
    employees,     \* the length of the state `employees` (main.jsx:824)
    events,        \* the event history Telemetry.getBuffered() returns
    today,         \* the day of the clock, as new Date() reads it
    analyticsData, \* the state `analyticsData` (main.jsx:827)
    suggestions,   \* the strings ProactiveSuggestions rendered last
    firstKpis      \* (history) what the first call of buildAnalytics returned

\* The variables of the analytics dashboard.
avars == <<tasks, employees, events, today, analyticsData, suggestions,
          firstKpis>>

vars == <<buffer, stored, sessionStore, enabled, timerActive, inflight, nextId,
          enqueued, removed, acked, seen, failedSession, failedLoad, reloads, last,
          overlap, flushButton, avars>>

(* ----------------------------- helpers -------------------------------- *)

\* arr.slice(-n) for n > 0
LastN(s, n) == IF Len(s) <= n THEN s ELSE SubSeq(s, Len(s) - n + 1, Len(s))

\* arr.slice(0, n)
FirstN(s, n) == IF Len(s) <= n THEN s ELSE SubSeq(s, 1, n)

\* arr.slice(n)
Ids(s) == {s[i].id : i \in 1..Len(s)}

RemoveAt(s, i) == [j \in 1..(Len(s) - 1) |-> IF j < i THEN s[j] ELSE s[j + 1]]

\* JSON.parse(localStorage.getItem(KEY) || "[]") inside try/catch: a missing
\* item parses "[]", a text JSON.parse rejects is caught; any other JSON
\* value is returned as it is.
ParseStored(v) ==
    IF v.kind \in {"absent", "garbage"} THEN ListVal(<<>>) ELSE v

getBuffered == ParseStored(stored)

\* Variants of the operators below with one plausible slip each; the
\* properties are re-checked against them.
load_ignoresStorage == ListVal(<<>>)

save_keepsOldest(arr) == ListVal(FirstN(arr, BUF_MAX))

FlushDisabled_neverChecked == FALSE

Disable_leavesTimer ==
    /\ enabled' = FALSE
    /\ timerActive' = timerActive

DropN_dropsNothing(s, n) == s

DropN_keepsHead(s, n) == IF Len(s) <= n THEN <<>> ELSE SubSeq(s, 1, Len(s) - n)

RemovedCount_fromBuffer(r) ==
    IF Len(buffer.items) <= FLUSH_BATCH THEN Len(buffer.items) ELSE FLUSH_BATCH

AfterFailure_abortsOthers(q, i) == <<>>

Batch_wholeBuffer(buf) == buf

\* arr.slice(n)
DropN(s, n) == IF Len(s) <= n THEN <<>> ELSE SubSeq(s, n + 1, Len(s))

\* batch.length at main.jsx:111: the length of the batch the request was
\* built with.
RemovedCount(r) == Len(r.batch)

\* The text written by save: JSON.stringify(arr.slice(-BUF_MAX)).
save(arr) == ListVal(LastN(arr, BUF_MAX))

\* load() at a page load: what line 84 assigns to buffer.
load == ParseStored(stored)

isEnabled == enabled

\* The values getSession can return in the current state; it leaves the
\* returned value in sessionStorage.
getSession == IF Truthy(sessionStore) THEN {sessionStore} ELSE Tokens

\* flush returns at once (main.jsx:92).
FlushDisabled == ~enabled

\* The failure path of flush (main.jsx:107-108 and 114-115).
Disable ==
    /\ enabled' = FALSE
    /\ timerActive' = FALSE

\* The requests still awaiting their response after request i of q has
\* failed: the failure path (main.jsx:106-109, 113-116) touches no other call.
AfterFailure(q, i) == RemoveAt(q, i)

\* const batch = buffer.slice(0, 200) (main.jsx:94).
Batch(buf) == FirstN(buf, FLUSH_BATCH)

Outcome(op, res, sent, write) ==
    [op |-> op, outcome |-> res, sent |-> sent, write |-> write]

(* ------------------------------- Init --------------------------------- *)

PageLoad(st) ==
    /\ enabled = TRUE
    /\ timerActive = TRUE
    /\ buffer = ParseStored(st)
    /\ inflight = <<>>

\* The day the clock shows when the page is opened.
StartDay == 3

\* The dashboard before any task, employee or event is known.
AnalyticsIdle ==
    /\ tasks = <<>>
    /\ employees = 0
    /\ events = <<>>
    /\ today = StartDay
    /\ analyticsData = NoAnalytics
    /\ suggestions = <<>>
    /\ firstKpis = NoAnalytics

\* The telemetry module and the header right after the script has run.
TelemetryStart(st) ==
    /\ overlap = FALSE
    /\ flushButton = TRUE
    /\ stored = st
    /\ PageLoad(st)
    /\ sessionStore = NULL
    /\ nextId = 1
    /\ enqueued = <<>>
    /\ removed = {}
    /\ acked = {}
    /\ seen = {}
    /\ failedSession = FALSE
    /\ failedLoad = FALSE
    /\ reloads = 0
    /\ last = Outcome("load", "returned", FALSE, "none")

InitWith(st) ==
    /\ AnalyticsIdle
    /\ TelemetryStart(st)

\* First visit: nothing stored under the buffer key.
Init == InitWith(NonList("absent"))

\* First load over a buffer key that may hold anything.
InitFaults == \E st \in {NonList("absent")} \cup CorruptStored : InitWith(st)

(* ------------------------------ actions ------------------------------- *)

\* Telemetry.log (main.jsx:121-132) with enqueue and save (83-89).
\* writeOk: localStorage.setItem at line 83 does not throw.
LogUpTo(writeOk, max) ==
    /\ nextId <= max
    /\ \E s \in getSession :
        LET evt == [id |-> nextId, session |-> s] IN
        /\ sessionStore' = s
        /\ seen' = seen \cup {s}
        /\ nextId' = nextId + 1
        /\ IF buffer.kind # "list"
           THEN \* buffer.push is not a function / buffer is null
                /\ last' = Outcome("log", "TypeError", FALSE, "none")
                /\ UNCHANGED <<buffer, stored, enqueued>>
           ELSE /\ buffer' = ListVal(Append(buffer.items, evt))
                /\ enqueued' = Append(enqueued, evt)
                /\ IF writeOk
                   THEN /\ stored' = save(buffer'.items)
                        /\ last' = Outcome("log", "returned", FALSE, "ok")
                   ELSE /\ stored' = stored
                        /\ last' = Outcome("log", "QuotaExceededError", FALSE, "failed")
    /\ UNCHANGED <<enabled, timerActive, inflight, removed, acked,
                   failedSession, failedLoad, reloads, overlap, flushButton, avars>>

Log(writeOk) == LogUpTo(writeOk, MaxEvents)

\* Telemetry.flush up to the await (main.jsx:91-105).
FlushStart(op) ==
    /\ IF FlushDisabled
       THEN /\ last' = Outcome(op, "returned", FALSE, "none")
            /\ UNCHANGED <<inflight, sessionStore, seen, overlap>>
       ELSE IF buffer.kind = "null"
       THEN \* null.length: the async function's promise is rejected
            /\ last' = Outcome(op, "rejected", FALSE, "none")
            /\ UNCHANGED <<inflight, sessionStore, seen, overlap>>
       ELSE IF buffer.kind # "list" \/ Len(buffer.items) = 0
       THEN \* !buffer.length: undefined or 0
            /\ last' = Outcome(op, "returned", FALSE, "none")
            /\ UNCHANGED <<inflight, sessionStore, seen, overlap>>
       ELSE /\ Len(inflight) < MaxInflight
            /\ \E s \in getSession :
                /\ sessionStore' = s
                /\ seen' = seen \cup {s}
                /\ inflight' = Append(inflight,
                       [batch |-> Batch(buffer.items), session |-> s,
                        after |-> nextId])
            /\ overlap' = (overlap \/ Len(inflight) > 0)
            /\ last' = Outcome(op, "pending", TRUE, "none")
    /\ UNCHANGED <<buffer, stored, enabled, timerActive, nextId, enqueued,
                   removed, acked, failedSession, failedLoad, reloads,
                   flushButton, avars>>

\* The interval of main.jsx:119 fires.
TimerTick ==
    /\ timerActive
    /\ FlushStart("tick")

\* The "Flush telemetry" button, or any other call of Telemetry.flush().
ManualFlush == FlushStart("flush")

\* The sink answers request i with a 2xx response (main.jsx:106, 111-116).
RespondOk(i, writeOk) ==
    /\ i \in 1..Len(inflight)
    /\ LET n == RemovedCount(inflight[i])
           rest == DropN(buffer.items, n) IN
        /\ buffer' = ListVal(rest)
        /\ removed' = removed \cup Ids(FirstN(buffer.items, n))
        /\ acked' = acked \cup Ids(inflight[i].batch)
        /\ IF writeOk
           THEN /\ stored' = save(rest)
                /\ last' = Outcome("response", "ok", FALSE, "ok")
                /\ UNCHANGED <<enabled, timerActive>>
           ELSE \* setItem throws inside the try: the catch of line 113
                /\ stored' = stored
                /\ Disable
                /\ last' = Outcome("response", "ok", FALSE, "failed")
    /\ inflight' = RemoveAt(inflight, i)
    /\ overlap' = (overlap /\ Len(inflight) > 1)
    /\ UNCHANGED <<sessionStore, nextId, enqueued, seen, failedSession,
                   failedLoad, reloads, flushButton, avars>>

\* The sink answers request i with a non-2xx response (main.jsx:106-110), or
\* fetch rejects (main.jsx:113-116).
RespondFail(i, how) ==
    /\ i \in 1..Len(inflight)
    /\ Disable
    /\ failedSession' = TRUE
    /\ failedLoad' = TRUE
    /\ inflight' = AfterFailure(inflight, i)
    /\ last' = Outcome("response", how, FALSE, "none")
    /\ overlap' = (overlap /\ Len(inflight) > 1)
    /\ UNCHANGED <<buffer, stored, sessionStore, nextId, enqueued, removed,
                   acked, seen, reloads, flushButton, avars>>

\* The page is reloaded: lines 59-145 run again.
Reload ==
    /\ enabled' = TRUE
    /\ timerActive' = TRUE
    /\ buffer' = load
    /\ inflight' = <<>>
    /\ failedLoad' = FALSE
    /\ reloads' = IF reloads < 2 THEN reloads + 1 ELSE 2
    /\ last' = Outcome("reload", "returned", FALSE, "none")
    /\ overlap' = FALSE
    /\ flushButton' = isEnabled'
    /\ UNCHANGED <<stored, sessionStore, nextId, enqueued, removed, acked,
                   seen, failedSession, avars>>

\* The tab is closed and the application opened again: sessionStorage is
\* empty and the page loads.
NewSession ==
    /\ enabled' = TRUE
    /\ timerActive' = TRUE
    /\ buffer' = load
    /\ inflight' = <<>>
    /\ sessionStore' = NULL
    /\ seen' = {}
    /\ failedSession' = FALSE
    /\ failedLoad' = FALSE
    /\ reloads' = IF reloads < 2 THEN reloads + 1 ELSE 2
    /\ last' = Outcome("new_session", "returned", FALSE, "none")
    /\ overlap' = FALSE
    /\ flushButton' = isEnabled'
    /\ UNCHANGED <<stored, nextId, enqueued, removed, acked, avars>>

Failures == {"not_ok", "network_error"}

\* localStorage accepts every write.
Next ==
    \/ Log(TRUE)
    \/ TimerTick
    \/ ManualFlush
    \/ \E i \in 1..MaxInflight : RespondOk(i, TRUE)
    \/ \E i \in 1..MaxInflight, how \in Failures : RespondFail(i, how)
    \/ Reload
    \/ NewSession

Spec == Init /\ [][Next]_vars

\* localStorage.setItem may throw (quota exceeded, storage disabled) and
\* the buffer key may hold corrupt text at the first load.
NextFaults ==
    \/ \E w \in BOOLEAN : Log(w)
    \/ TimerTick
    \/ ManualFlush
    \/ \E i \in 1..MaxInflight, w \in BOOLEAN : RespondOk(i, w)
    \/ \E i \in 1..MaxInflight, how \in Failures : RespondFail(i, how)
    \/ Reload
    \/ NewSession

SpecFaults == InitFaults /\ [][NextFaults]_vars

\* The App component renders again (any of its state setters ran): the
\* header of main.jsx:3402-3410 reads Telemetry.isEnabled().
Render ==
    /\ flushButton' = isEnabled
    /\ last' = Outcome("render", "returned", FALSE, "none")
    /\ UNCHANGED <<buffer, stored, sessionStore, enabled, timerActive, inflight,
                   nextId, enqueued, removed, acked, seen, failedSession,
                   failedLoad, reloads, overlap, avars>>

\* A click on the "Flush telemetry" button (main.jsx:3406).
ButtonClick ==
    /\ flushButton
    /\ FlushStart("flush")

\* The telemetry pipeline together with the header that shows the button.
NextUI ==
    \/ Log(TRUE)
    \/ TimerTick
    \/ ButtonClick
    \/ \E i \in 1..MaxInflight : RespondOk(i, TRUE)
    \/ \E i \in 1..MaxInflight, how \in Failures : RespondFail(i, how)
    \/ Reload
    \/ Render

SpecUI == Init /\ [][NextUI]_vars

\* One page load in which many events are logged while requests are in
\* flight.
NextBurst ==
    \/ LogUpTo(TRUE, MaxBurst)
    \/ TimerTick
    \/ ManualFlush
    \/ \E i \in 1..MaxInflight : RespondOk(i, TRUE)
    \/ \E i \in 1..MaxInflight, how \in Failures : RespondFail(i, how)

SpecBurst == Init /\ [][NextBurst]_vars

\* One page load with a sink that answers every submission with a 2xx
\* response.  The interval of main.jsx:119 fires every FLUSH_INTERVAL ms for
\* as long as it is not cleared, and every request gets its response.
NextDrain ==
    \/ Log(TRUE)
    \/ TimerTick
    \/ \E i \in 1..MaxInflight : RespondOk(i, TRUE)

SpecDrain ==
    /\ Init
    /\ [][NextDrain]_vars
    /\ WF_vars(TimerTick)
    /\ WF_vars(\E i \in 1..MaxInflight : RespondOk(i, TRUE))

(* ------------------------------ analytics ----------------------------- *)
(* The analytics dashboard of the App component: buildAnalytics            *)
(* (main.jsx:937-992), fetchAnalytics (994-1051), the effect that calls it *)
(* (1066-1070) and the ProactiveSuggestions panel (1884-1935).             *)
(*                                                                         *)
(* A task is [status, updated_at, created_at, deadline]; an event of the   *)
(* history is [type, user, ms, day, hour].  A date is the ordinal of its   *)
(* calendar day (what .slice(0, 10) keeps of an ISO string), 0 for a       *)
(* missing one; hour is what new Date(e.at).getHours() returns; NULL is a  *)
(* missing status or user, NO_MS a missing data.ms.                        *)

\* Longest task list drawn freely from TaskKinds.
MaxTasks == 3

\* Longest event history drawn freely from EventKinds.
MaxHistory == 3

\* Last day the clock reaches.
MaxDay == 4

\* Most unfinished tasks of a board built by counts.
MaxPending == 7

\* Most tasks finished on one day of a board built by counts.
MaxPerDay == 2

\* Array.from({ length: 24 }) of main.jsx:971.
HOURS == 24

\* .slice(0, 3) of main.jsx:981.
TOP_HOURS == 3

\* completionRate < 50 of main.jsx:1896.
LOW_RATE == 50

\* total > 10 of main.jsx:1896.
MIN_TASKS == 10

\* contextSwitchesToday > 15 of main.jsx:1903.
MAX_SWITCHES == 15

\* .slice(0, 2) of main.jsx:1907.
FOCUS_HOURS == 2

\* throughputLabels.length >= 3 of main.jsx:1915.
TREND_DAYS == 3

\* An event whose data has no ms field: e.data?.ms is undefined.
NO_MS == -1

Task(st, upd, cre, dl) ==
    [status |-> st, updated_at |-> upd, created_at |-> cre, deadline |-> dl]

Event(ty, u, ms, d, h) ==
    [type |-> ty, user |-> u, ms |-> ms, day |-> d, hour |-> h]

\* The tasks a free task list is made of: the statuses of the board, a
\* status the board does not know, a task without status, tasks without
\* dates, and one whose deadline was day 1.
TaskKinds ==
    { Task("DONE", 1, 1, 0), Task("PASS", 0, 2, 0), Task("DONE", 0, 0, 0),
      Task("TODO", 0, 1, 0), Task("IN_PROGRESS", 2, 1, 1),
      Task("BLOCKED", 2, 1, 0), Task(NULL, 0, 0, 0) }

\* The events a free history is made of.  Only time_spent carries data.ms
\* (main.jsx:161); user is a name or null (main.jsx:129).
EventKinds ==
    { Event("time_spent", "alice", 1000, 3, 9),
      Event("time_spent", "alice", 2000, 3, 14),
      Event("time_spent", "bob", 5000, 2, 9),
      Event("time_spent", NULL, 9000, 3, 14),
      Event("time_spent", "bob", 1000, 3, 20),
      Event("time_spent", "bob", NO_MS, 3, 23),
      Event("nav_switch", "carol", NO_MS, 3, 9),
      Event("task_move", NULL, NO_MS, 2, 14) }

SeqsUpTo(S, n) == UNION {[1..k -> S] : k \in 0..n}

Rep(x, n) == [i \in 1..n |-> x]

\* A board built by counts: a, b, c tasks finished on days 1, 2, 3, p tasks
\* to do, and o tasks to do whose deadline was day 1.
Board(a, b, c, p, o) ==
    Rep(Task("DONE", 1, 1, 0), a) \o Rep(Task("PASS", 2, 1, 0), b)
        \o Rep(Task("DONE", 3, 1, 0), c) \o Rep(Task("TODO", 0, 1, 0), p)
        \o Rep(Task("TODO", 0, 1, 1), o)

ExampleEvents ==
    <<Event("time_spent", "bob", 5000, 2, 9), Event("nav_switch", "carol", NO_MS, 3, 9)>>

\* The object literal {}.
EmptyObj == [k \in {} |-> 0]

Front(s) == SubSeq(s, 1, Len(s) - 1)

Final(s) == s[Len(s)]

(* variants of the definitions below *)

IsCompleted_doneOnly(status) == status = "DONE"

UserKey_noFallback(e) == e.user

Outranks_orEqual(a, b) == a.ms >= b.ms

DayOf_createdFirst(t) == IF t.created_at # 0 THEN t.created_at ELSE t.updated_at

LowCompletion_atTen(completed, total) ==
    /\ (IF total > 0 THEN completed * 100 ELSE 0) < LOW_RATE * (IF total > 0 THEN total ELSE 1)
    /\ total >= MIN_TASKS

ThroughputDip_twoDays(labels, data) ==
    /\ Len(labels) >= TREND_DAYS - 1
    /\ data[Len(data)] < data[Len(data) - 1]

(* buildAnalytics *)

\* t.status === "DONE" || t.status === "PASS" (main.jsx:938, 958).
IsCompleted(status) == status \in {"DONE", "PASS"}

\* The property name a status makes in acc[t.status] (main.jsx:942).
StatusKey(status) == IF status = NULL THEN "undefined" ELSE status

\* e.user || "anonymous" (main.jsx:950).
UserKey(e) == IF Truthy(e.user) THEN e.user ELSE "anonymous"

\* e.data?.ms || 0 (main.jsx:951, 976).
MsOf(e) == IF e.ms = NO_MS THEN 0 ELSE e.ms

\* acc[k] = (acc[k] || 0) + n (main.jsx:942, 951, 959).
Bump(acc, k, n) ==
    [x \in (DOMAIN acc) \cup {k} |->
        IF x = k THEN (IF k \in DOMAIN acc THEN acc[k] ELSE 0) + n ELSE acc[x]]

RECURSIVE statusCounts(_)
statusCounts(ts) ==
    IF ts = <<>> THEN EmptyObj
    ELSE Bump(statusCounts(Front(ts)), StatusKey(Final(ts).status), 1)

RECURSIVE timeByUserMs(_)
timeByUserMs(es) ==
    IF es = <<>> THEN EmptyObj
    ELSE LET acc == timeByUserMs(Front(es))
             e == Final(es) IN
         IF e.type = "time_spent" THEN Bump(acc, UserKey(e), MsOf(e)) ELSE acc

\* (t.updated_at || t.created_at || "").slice(0, 10) (main.jsx:956).
DayOf(t) == IF t.updated_at # 0 THEN t.updated_at ELSE t.created_at

RECURSIVE throughputByDay(_)
throughputByDay(ts) ==
    IF ts = <<>> THEN EmptyObj
    ELSE LET acc == throughputByDay(Front(ts))
             t == Final(ts) IN
         IF DayOf(t) # 0 /\ IsCompleted(t.status) THEN Bump(acc, DayOf(t), 1) ELSE acc

SwitchTypes == {"nav_switch", "task_move", "code_run"}

\* main.jsx:964-968; now is the day new Date() reads.
contextSwitchesToday(es, now) ==
    Len(SelectSeq(SelectSeq(es, LAMBDA e : e.day = now),
                  LAMBDA e : e.type \in SwitchTypes))

RECURSIVE timePerHour(_)
timePerHour(es) ==
    IF es = <<>> THEN [h \in 0..(HOURS - 1) |-> 0]
    ELSE LET acc == timePerHour(Front(es))
             e == Final(es) IN
         IF e.type = "time_spent" THEN [acc EXCEPT ![e.hour] = @ + MsOf(e)] ELSE acc

\* The comparator (a, b) => b.ms - a.ms is negative: a goes before b.
Outranks(a, b) == a.ms > b.ms

\* Array.prototype.sort is stable: an element goes behind the earlier
\* elements it does not outrank.
RECURSIVE InsertRanked(_, _)
InsertRanked(sorted, x) ==
    IF sorted = <<>> THEN <<x>>
    ELSE IF Outranks(x, Head(sorted)) THEN <<x>> \o sorted
    ELSE <<Head(sorted)>> \o InsertRanked(Tail(sorted), x)

RECURSIVE SortRanked(_)
SortRanked(s) ==
    IF s = <<>> THEN <<>> ELSE InsertRanked(SortRanked(Front(s)), Final(s))

\* main.jsx:978-981.
rankedHours(es) ==
    LET perHour == timePerHour(es) IN
    FirstN(SortRanked([i \in 1..HOURS |-> [hour |-> i - 1, ms |-> perHour[i - 1]]]),
           TOP_HOURS)

buildAnalytics(tasksList, es, now) ==
    LET completed == Len(SelectSeq(tasksList, LAMBDA t : IsCompleted(t.status))) IN
    [completed |-> completed,
     pending |-> Len(tasksList) - completed,
     statusCounts |-> statusCounts(tasksList),
     timeByUserMs |-> timeByUserMs(es),
     throughputByDay |-> throughputByDay(tasksList),
     contextSwitchesToday |-> contextSwitchesToday(es, now),
     optimalHours |-> rankedHours(es)]

\* Object.keys(o).sort() over ISO dates (main.jsx:1040).
RECURSIVE SortedKeys(_)
SortedKeys(S) ==
    IF S = {} THEN <<>>
    ELSE LET m == CHOOSE x \in S : \A y \in S : x <= y IN
         <<m>> \o SortedKeys(S \ {m})

\* The value fetchAnalytics hands to setAnalyticsData (main.jsx:1018-1050).
fetchAnalytics(tasksList, es, now) ==
    LET kpis == buildAnalytics(tasksList, es, now)
        throughputLabels == SortedKeys(DOMAIN kpis.throughputByDay) IN
    [kind |-> "data",
     kpis |-> kpis,
     throughputLabels |-> throughputLabels,
     throughputData |-> [i \in 1..Len(throughputLabels) |->
                            kpis.throughputByDay[throughputLabels[i]]]]

(* ProactiveSuggestions *)

\* One advisory string: the rule that wrote it and the values it prints.
Advice(rule, detail) == [rule |-> rule, detail |-> detail]

\* completionRate < 50 && total > 10 (main.jsx:1889, 1896), with
\* completionRate = total > 0 ? (completed / total) * 100 : 0.
LowCompletion(completed, total) ==
    /\ (IF total > 0 THEN completed * 100 ELSE 0) < LOW_RATE * (IF total > 0 THEN total ELSE 1)
    /\ total > MIN_TASKS

\* throughputLabels.length >= 3 and last < prev (main.jsx:1915-1918).
ThroughputDip(labels, data) ==
    /\ Len(labels) >= TREND_DAYS
    /\ data[Len(data)] < data[Len(data) - 1]

\* main.jsx:1890-1892.
Overdue(ts, now) ==
    SelectSeq(ts, LAMBDA t : /\ t.deadline # 0
                             /\ t.deadline < now
                             /\ ~ (t.status \in {"DONE", "PASS"}))

\* fmt of main.jsx:1909: the window hh:00-(hh+1):00.
Window(h) == [from |-> h, to |-> (h + 1) % HOURS]

\* What the panel lists; <<>> is `return null` (main.jsx:1885, 1923).
ProactiveSuggestions(ad, ts, now) ==
    IF ad.kind = "null" THEN <<>>
    ELSE
      LET kpis == ad.kpis
          total == Len(ts)
          overdue == Overdue(ts, now)
          topHours == FirstN(kpis.optimalHours, FOCUS_HOURS)
          low == IF LowCompletion(kpis.completed, total)
                 THEN <<Advice("low_completion", <<>>)>> ELSE <<>>
          late == IF Len(overdue) > 0
                  THEN <<Advice("overdue", <<Len(overdue)>>)>> ELSE <<>>
          switching == IF kpis.contextSwitchesToday > MAX_SWITCHES
                       THEN <<Advice("context_switching", <<>>)>> ELSE <<>>
          focus == IF Len(topHours) > 0
                   THEN <<Advice("focus_window",
                                 [i \in 1..Len(topHours) |-> Window(topHours[i].hour)])>>
                   ELSE <<>>
          dip == IF ThroughputDip(ad.throughputLabels, ad.throughputData)
                 THEN <<Advice("throughput_dip", <<>>)>> ELSE <<>>
      IN low \o late \o switching \o focus \o dip

(* the dashboard as a state machine *)

\* The inputs of one dashboard: the tasks, the event history and the
\* number of employees fetched.  Free task lists; free event histories on
\* a board that has employees but no task yet; and boards built by counts
\* with a day of many navigation events.
Dashboards ==
    ({[t |-> ts, e |-> ExampleEvents, n |-> 0] : ts \in SeqsUpTo(TaskKinds, MaxTasks)})
    \cup
    ({[t |-> <<>>, e |-> es, n |-> 1] : es \in SeqsUpTo(EventKinds, MaxHistory)})
    \cup
    ({[t |-> Board(c[1], c[2], c[3], p, o),
       e |-> Rep(Event("nav_switch", "carol", NO_MS, StartDay, 9), k),
       n |-> 0] :
          c \in (0..MaxPerDay) \X (0..MaxPerDay) \X (0..MaxPerDay),
          p \in {0, MaxPending - 3, MaxPending - 2, MaxPending - 1, MaxPending},
          o \in 0..1,
          k \in {MAX_SWITCHES, MAX_SWITCHES + 1}})

\* A logged-in page (role is set) whose tasks, employees and event
\* history have been fetched; analytics not computed yet.
InitAnalytics ==
    /\ TelemetryStart(NonList("absent"))
    /\ \E d \in Dashboards : tasks = d.t /\ events = d.e /\ employees = d.n
    /\ today = StartDay
    /\ analyticsData = NoAnalytics
    /\ suggestions = <<>>
    /\ firstKpis = NoAnalytics

\* The effect of main.jsx:1066-1070 runs fetchAnalytics (it runs again
\* whenever tasks or employees are fetched again), and setAnalyticsData
\* renders the panel again.
FetchAnalytics ==
    /\ Len(tasks) > 0 \/ employees > 0
    /\ analyticsData' = fetchAnalytics(tasks, events, today)
    /\ suggestions' = ProactiveSuggestions(analyticsData', tasks, today)
    /\ firstKpis' = IF firstKpis.kind = "null"
                    THEN [kind |-> "data", kpis |-> analyticsData'.kpis]
                    ELSE firstKpis
    /\ last' = Outcome("fetchAnalytics", "returned", FALSE, "none")
    /\ UNCHANGED <<buffer, stored, sessionStore, enabled, timerActive, inflight,
                   nextId, enqueued, removed, acked, seen, failedSession,
                   failedLoad, reloads, overlap, flushButton,
                   tasks, employees, events, today>>

\* The App component renders again with the analyticsData it holds.
RenderPanel ==
    /\ suggestions' = ProactiveSuggestions(analyticsData, tasks, today)
    /\ last' = Outcome("render", "returned", FALSE, "none")
    /\ UNCHANGED <<buffer, stored, sessionStore, enabled, timerActive, inflight,
                   nextId, enqueued, removed, acked, seen, failedSession,
                   failedLoad, reloads, overlap, flushButton,
                   tasks, employees, events, today, analyticsData, firstKpis>>

\* Midnight passes: new Date() reads the next day.
ClockAdvance ==
    /\ today < MaxDay
    /\ today' = today + 1
    /\ last' = Outcome("midnight", "returned", FALSE, "none")
    /\ UNCHANGED <<buffer, stored, sessionStore, enabled, timerActive, inflight,
                   nextId, enqueued, removed, acked, seen, failedSession,
                   failedLoad, reloads, overlap, flushButton,
                   tasks, employees, events, analyticsData, suggestions, firstKpis>>

NextAnalytics ==
    \/ FetchAnalytics
    \/ RenderPanel
    \/ ClockAdvance

SpecAnalytics == InitAnalytics /\ [][NextAnalytics]_vars

(* ----------------------------- properties ----------------------------- *)

\* The events pushed onto the buffer that no flush has sliced off.
NotRemoved == SelectSeq(enqueued, LAMBDA e : e.id \notin removed)

\* C1: while no flush has removed anything, the snapshot stored under the
\* buffer key after each log call is the last min(BUF_MAX, total) enqueued
\* events, in insertion order.
C1_SnapshotIsTail ==
    (removed = {} /\ enqueued # <<>>) => stored = ListVal(LastN(enqueued, BUF_MAX))

\* A log call that pushed the cap past BUF_MAX with no flush before it.
C1_Witness ==
    /\ last.op = "log"
    /\ removed = {}
    /\ Len(enqueued) > BUF_MAX

\* C2: every event a flush removed from the buffer was part of a batch the
\* sink answered with a 2xx response.
C2_RemovedWereAcked == removed \subseteq acked

C5_NoResurrection ==
    removed \cap (Ids(buffer.items) \cup Ids(stored.items)) = {}

\* C6: the in-memory buffer and the stored snapshot hold at most BUF_MAX
\* events.
C6_Capped ==
    /\ Len(buffer.items) <= BUF_MAX
    /\ Len(stored.items) <= BUF_MAX

\* C7: after log calls and flushes followed by a reload, the buffer that
\* load() rebuilt is the stored snapshot, which is the last
\* min(BUF_MAX, n) of the n events enqueued and not removed by a flush.
C7_ReloadRestoresTail ==
    (last.op \in {"reload", "new_session"} /\ reloads = 1) =>
        /\ buffer = getBuffered
        /\ buffer = ListVal(LastN(NotRemoved, BUF_MAX))

\* A reload that found more events outstanding than the cap keeps.
C7_Witness ==
    /\ last.op = "reload"
    /\ reloads = 1
    /\ Len(NotRemoved) > BUF_MAX
    /\ Len(buffer.items) = BUF_MAX

\* C8: whatever the buffer key holds, load() and getBuffered() give an
\* empty sequence unless it holds a list, and no log() or flush() raises.
C8_CorruptionTolerated ==
    /\ buffer.kind = "list"
    /\ getBuffered.kind = "list"
    /\ last.outcome \notin {"TypeError", "rejected"}

\* C9: a log call whose storage write failed returns normally and its
\* event is in the in-memory buffer.
C9_WriteFailureSwallowed ==
    (last.op = "log" /\ last.write = "failed") =>
        /\ last.outcome = "returned"
        /\ (nextId - 1) \in Ids(buffer.items)

\* C10: all calls of getSession() in one browsing session return the same
\* value.
C10_SessionIdempotent == Cardinality(seen) <= 1

\* t is what is left of s after dropping some of its first elements.
IsSuffix(t, s) == \E k \in 0..Len(s) : t = SubSeq(s, k + 1, Len(s))

\* sub occurs in s as a contiguous run.
IsRun(sub, s) ==
    \E i \in 1..(Len(s) + 1) :
        /\ i + Len(sub) - 1 <= Len(s)
        /\ SubSeq(s, i, i + Len(sub) - 1) = sub

\* The step pushes one newly created event onto the end of the buffer.
AppendsOne ==
    /\ Len(enqueued') = Len(enqueued) + 1
    /\ buffer'.items = Append(buffer.items, enqueued'[Len(enqueued')])

\* The step handles a 2xx response and drops a prefix of the buffer.
RemovesPrefixAfterFlush ==
    /\ last'.op = "response"
    /\ last'.outcome = "ok"
    /\ IsSuffix(buffer'.items, buffer.items)

\* The step is a page load that keeps the newest BUF_MAX buffered events.
EvictsAtLoad ==
    /\ last'.op \in {"reload", "new_session"}
    /\ buffer'.items = LastN(buffer.items, BUF_MAX)

BufferIsRun == buffer.kind = "list" /\ IsRun(buffer.items, enqueued)

C19_ButtonOnlyWhileEnabled == flushButton => isEnabled

\* The events of the buffer created after request r was built.
SinceBuild(r) == SelectSeq(buffer.items, LAMBDA e : e.id >= r.after)

\* The step handles the 2xx response of a flush that was alone in flight
\* from its start to its response.
SingleFlushSucceeds ==
    /\ Len(inflight) = 1
    /\ ~overlap
    /\ last'.op = "response"
    /\ last'.outcome = "ok"

\* Such a step removes exactly the batch from the front and keeps the
\* events logged since the request was built at the end of the buffer.
RemovesExactlyBatch ==
    LET r == inflight[1] IN
    /\ SubSeq(buffer.items, 1, Len(r.batch)) = r.batch
    /\ buffer'.items = SubSeq(buffer.items, Len(r.batch) + 1, Len(buffer.items))
    /\ LastN(buffer'.items, Len(SinceBuild(r))) = SinceBuild(r)

\* C20 as stated: a single successful flush removes exactly its batch, and
\* every event logged while it was in flight is afterwards in the buffer
\* and in the stored snapshot, in order.
C20_InFlightEventsKept ==
    [][SingleFlushSucceeds =>
          /\ RemovesExactlyBatch
          /\ LastN(stored'.items, Len(SinceBuild(inflight[1])))
                = SinceBuild(inflight[1])]_vars

\* C20 as amended: ... afterwards in the buffer, in order, and the stored
\* snapshot is the newest BUF_MAX events of that buffer.
C20_InFlightEventsKeptUpToCap ==
    [][SingleFlushSucceeds =>
          /\ RemovesExactlyBatch
          /\ stored'.items = LastN(buffer'.items, BUF_MAX)]_vars

\* A flush of one event that was alone in flight has succeeded, and events
\* logged during its flight are buffered.
C20_Witness ==
    /\ last.op = "response"
    /\ last.outcome = "ok"
    /\ inflight = <<>>
    /\ isEnabled
    /\ Cardinality(removed) = 1
    /\ acked = removed
    /\ Len(buffer.items) > 1

(* properties of the analytics dashboard *)

\* The positions of the tasks the board counts as finished.
FinishedTasks == {i \in 1..Len(tasks) : tasks[i].status = "DONE" \/ tasks[i].status = "PASS"}

\* C12: buildAnalytics returns completed = the number of tasks whose status
\* is DONE or PASS and pending = total - completed; a task with any other
\* status, unknown or missing, is pending, and the call returns normally.
C12_CompletedAndPending ==
    analyticsData.kind = "data" =>
        /\ analyticsData.kpis.completed = Cardinality(FinishedTasks)
        /\ analyticsData.kpis.pending = Len(tasks) - Cardinality(FinishedTasks)
        /\ analyticsData.kpis.completed + analyticsData.kpis.pending = Len(tasks)
        /\ last.op = "fetchAnalytics" => last.outcome = "returned"

\* Analytics were computed for a finished task, a task with an unknown
\* status and a task without status.
C12_Witness ==
    /\ analyticsData.kind = "data"
    /\ Len(tasks) = 3
    /\ \E i, j, k \in 1..3 : /\ tasks[i].status = "DONE"
                             /\ tasks[j].status = "BLOCKED"
                             /\ tasks[k].status = NULL
    /\ analyticsData.kpis.completed = 1
    /\ analyticsData.kpis.pending = 2

\* C13: aggregating an empty task list and an empty event history returns
\* completed = 0, pending = 0, statusCounts = {}, timeByUser = {},
\* throughputByDay = {}, contextSwitchesToday = 0 and optimalHours = [].
C13_EmptyAggregation ==
    (tasks = <<>> /\ events = <<>> /\ analyticsData.kind = "data") =>
        /\ analyticsData.kpis.completed = 0
        /\ analyticsData.kpis.pending = 0
        /\ DOMAIN analyticsData.kpis.statusCounts = {}
        /\ DOMAIN analyticsData.kpis.timeByUserMs = {}
        /\ DOMAIN analyticsData.kpis.throughputByDay = {}
        /\ analyticsData.kpis.contextSwitchesToday = 0
        /\ analyticsData.kpis.optimalHours = <<>>

\* The positions of the time_spent events of the history.
SpentEvents == {i \in 1..Len(events) : events[i].type = "time_spent"}

\* The sum of data.ms over the events at the positions S.
RECURSIVE SumMs(_)
SumMs(S) ==
    IF S = {} THEN 0
    ELSE LET i == CHOOSE x \in S : TRUE IN
         (IF events[i].ms < 0 THEN 0 ELSE events[i].ms) + SumMs(S \ {i})

\* The key an event is summed under.
KeyAt(i) == IF events[i].user = NULL THEN "anonymous" ELSE events[i].user

HourTotal(h) == SumMs({i \in SpentEvents : events[i].hour = h})

\* Hour g ranks before hour h: larger total, or equal total and lower hour.
RanksBefore(g, h) ==
    \/ HourTotal(g) > HourTotal(h)
    \/ HourTotal(g) = HourTotal(h) /\ g < h

\* C15: optimalHours lists at most 3 hours of the day, each with the sum of
\* data.ms of the time_spent events of that hour, by total descending, ties
\* by the lower hour first, and no hour left out ranks before a listed one.
C15_OptimalHours ==
    analyticsData.kind = "data" =>
        LET oh == analyticsData.kpis.optimalHours IN
        /\ Len(oh) <= 3
        /\ \A i \in 1..Len(oh) : /\ oh[i].hour \in 0..23
                                 /\ oh[i].ms = HourTotal(oh[i].hour)
        /\ \A i, j \in 1..Len(oh) : i < j => RanksBefore(oh[i].hour, oh[j].hour)
        /\ \A h \in 0..23 : \A i \in 1..Len(oh) :
              h \notin {oh[k].hour : k \in 1..Len(oh)} => RanksBefore(oh[i].hour, h)

\* Totals 9 -> 5000, 14 -> 9000, 20 -> 1000 were ranked 14, 9, 20.
C15_Witness ==
    /\ analyticsData.kind = "data"
    /\ analyticsData.kpis.optimalHours =
          <<[hour |-> 14, ms |-> 9000], [hour |-> 9, ms |-> 5000],
            [hour |-> 20, ms |-> 1000]>>

\* C16: buildAnalytics is deterministic given its two inputs: every call
\* with the same task list and event list returns what the first call
\* returned, in every field, whenever it is made.
C16_Deterministic ==
    (analyticsData.kind = "data" /\ firstKpis.kind = "data") =>
        analyticsData.kpis = firstKpis.kpis

\* The low-completion advice is in the panel.
HasRule(rule) == \E i \in 1..Len(suggestions) : suggestions[i].rule = rule

\* C17: the low-completion suggestion is produced if and only if
\* completed/total is strictly below 50% and there are more than 10 tasks.
C17_LowCompletionIff ==
    analyticsData.kind = "data" =>
        (HasRule("low_completion") <=>
            (2 * Cardinality(FinishedTasks) < Len(tasks) /\ Len(tasks) > 10))

\* Eleven tasks, fewer than half of them finished, and the advice is shown.
C17_Witness ==
    /\ analyticsData.kind = "data"
    /\ Len(tasks) = 11
    /\ 2 * Cardinality(FinishedTasks) < 11
    /\ HasRule("low_completion")

\* The fixed order of the rules.
RuleOrder ==
    <<"low_completion", "overdue", "context_switching", "focus_window",
      "throughput_dip">>

\* The place of a rule in the fixed order.
RulePlace(rule) == CHOOSE k \in 1..Len(RuleOrder) : RuleOrder[k] = rule

\* C18: the suggestions follow the fixed order of the rules, each rule at
\* most once, and nothing is listed when no rule's condition holds - in
\* particular for an empty task list and an empty event history.
C18_FixedOrderEmptyWhenNothingFires ==
    /\ \A i \in 1..Len(suggestions) :
          \E k \in 1..Len(RuleOrder) : suggestions[i].rule = RuleOrder[k]
    /\ \A i, j \in 1..Len(suggestions) :
          i < j => RulePlace(suggestions[i].rule) < RulePlace(suggestions[j].rule)
    /\ (tasks = <<>> /\ events = <<>>) => suggestions = <<>>

(* properties of the flush protocol, continued *)

\* The step answers one request in flight and leaves the others waiting.
AnswersOne == \E i \in 1..Len(inflight) : inflight' = RemoveAt(inflight, i)

\* The step is the success path of a request in flight: batch.length events
\* leave the front of the buffer and the rest is persisted.
CompletesOne ==
    \E i \in 1..Len(inflight) :
        /\ inflight' = RemoveAt(inflight, i)
        /\ buffer'.items =
              SubSeq(buffer.items, Len(inflight[i].batch) + 1, Len(buffer.items))
        /\ stored' = ListVal(LastN(buffer'.items, BUF_MAX))

FlushCalled == last'.op \in {"tick", "flush"}

\* The step submits one request whose batch is the k oldest buffered
\* events, k the smaller of FLUSH_BATCH and the buffer length.
SubmitsOldest ==
    LET k == IF Len(buffer.items) < FLUSH_BATCH THEN Len(buffer.items) ELSE FLUSH_BATCH IN
    /\ Len(inflight') = Len(inflight) + 1
    /\ SubSeq(inflight', 1, Len(inflight)) = inflight
    /\ inflight'[Len(inflight')].batch = [j \in 1..k |-> buffer.items[j]]
    /\ IsRun(inflight'[Len(inflight')].batch, enqueued)

\* C22: a flush cycle on a non-empty buffer submits exactly one batch, the
\* min(FLUSH_BATCH, buffer length) oldest buffered events in enqueue order;
\* a flush cycle on an empty buffer submits nothing and changes no state.
C22_OneBatchOfOldest ==
    [][FlushCalled =>
        /\ (enabled /\ Len(buffer.items) > 0) => (last'.sent /\ SubmitsOldest)
        /\ last'.sent => (enabled /\ Len(buffer.items) > 0)
        /\ Len(buffer.items) = 0 =>
              /\ ~last'.sent
              /\ UNCHANGED <<buffer, stored, sessionStore, enabled, timerActive,
                             inflight>>
        /\ UNCHANGED <<buffer, stored, enabled, timerActive>>]_vars

\* A flush of a buffer longer than FLUSH_BATCH has submitted its batch.
C22_Witness ==
    /\ last.op \in {"tick", "flush"}
    /\ last.sent
    /\ Len(buffer.items) > FLUSH_BATCH
    /\ Len(inflight) > 0
    /\ inflight[Len(inflight)].batch = SubSeq(buffer.items, 1, FLUSH_BATCH)

\* C23: the event history handed to the aggregation, Telemetry.getBuffered(),
\* equals the in-memory buffer at every moment: all events enqueued and not
\* yet removed by a successful flush, in order.
C23_HistoryIsBuffer == getBuffered = buffer

(* properties of the analytics dashboard, continued *)

\* The day a task is counted under: of updated_at, else of created_at, else 0.
DayAt(i) ==
    IF tasks[i].updated_at # 0 THEN tasks[i].updated_at ELSE tasks[i].created_at

\* The positions of the finished tasks that have a timestamp.
DatedFinished == {i \in FinishedTasks : DayAt(i) # 0}

\* The sum of the counts of the days D in the object o.
RECURSIVE SumCounts(_, _)
SumCounts(o, D) ==
    IF D = {} THEN 0
    ELSE LET d == CHOOSE x \in D : TRUE IN o[d] + SumCounts(o, D \ {d})

\* C24: throughputByDay counts each task whose status is DONE or PASS once,
\* under the day of its updated_at, or of its created_at when updated_at is
\* absent; a task with neither is skipped, so the counts add up to the
\* number of finished tasks with a timestamp, and other tasks make no entry.
C24_ThroughputByDay ==
    analyticsData.kind = "data" =>
        LET tb == analyticsData.kpis.throughputByDay IN
        /\ DOMAIN tb = {DayAt(i) : i \in DatedFinished}
        /\ \A d \in DOMAIN tb : tb[d] = Cardinality({i \in DatedFinished : DayAt(i) = d})
        /\ SumCounts(tb, DOMAIN tb) = Cardinality(DatedFinished)

\* Analytics of a finished task dated by created_at only, a finished task
\* without dates and an unfinished task with dates.
C24_Witness ==
    /\ analyticsData.kind = "data"
    /\ Len(tasks) = 3
    /\ \E i, j, k \in 1..3 :
          /\ i \in FinishedTasks /\ tasks[i].updated_at = 0 /\ tasks[i].created_at = 2
          /\ j \in FinishedTasks /\ tasks[j].updated_at = 0 /\ tasks[j].created_at = 0
          /\ k \notin FinishedTasks /\ tasks[k].updated_at # 0
    /\ DOMAIN analyticsData.kpis.throughputByDay = {2}
    /\ analyticsData.kpis.throughputByDay[2] = 1

\* The advice a rule has put in the panel.
AdviceOf(rule) ==
    suggestions[CHOOSE i \in 1..Len(suggestions) : suggestions[i].rule = rule]

\* C25: the focus-window suggestion is produced only if optimalHours has an
\* entry, and then names its top 2 entries as hour ranges; for analytics of
\* an event history without time_spent events it is not produced.
C25_FocusWindowNeedsFocusTime ==
    analyticsData.kind = "data" =>
        LET oh == analyticsData.kpis.optimalHours IN
        /\ HasRule("focus_window") =>
              /\ Len(oh) >= 1
              /\ AdviceOf("focus_window").detail =
                    [i \in 1..(IF Len(oh) < 2 THEN Len(oh) ELSE 2) |->
                        [from |-> oh[i].hour, to |-> (oh[i].hour + 1) % 24]]
        /\ SpentEvents = {} => ~HasRule("focus_window")

\* The days on which a task was finished.
ThroughputDays == {DayAt(i) : i \in DatedFinished}

\* The number of tasks finished on day d.
FinishedOn(d) == Cardinality({i \in DatedFinished : DayAt(i) = d})

\* The latest day of a set of days.
Latest(D) == CHOOSE d \in D : \A x \in D : x <= d

\* C26: the throughput-dip suggestion is produced if and only if the
\* throughput-by-day series has at least 3 days and the count of its last
\* day is strictly less than the count of the day before it in the series.
C26_ThroughputDipIff ==
    analyticsData.kind = "data" =>
        (HasRule("throughput_dip") <=>
            /\ Cardinality(ThroughputDays) >= 3
            /\ FinishedOn(Latest(ThroughputDays)) <
                  FinishedOn(Latest(ThroughputDays \ {Latest(ThroughputDays)})))

\* Three days of throughput, fewer tasks finished on the last than on the
\* day before, and the advice is shown.
C26_Witness ==
    /\ analyticsData.kind = "data"
    /\ analyticsData.throughputLabels = <<1, 2, 3>>
    /\ analyticsData.throughputData = <<1, 2, 1>>
    /\ HasRule("throughput_dip")

(* properties of the flush protocol, continued *)

\* The step is a 2xx response to a request none of whose events the sink
\* had acknowledged before.
AcksFreshBatch ==
    \E i \in 1..Len(inflight) :
        /\ inflight' = RemoveAt(inflight, i)
        /\ Ids(inflight[i].batch) \cap acked = {}

\* C27: no event is delivered twice: under any interleaving of timer ticks,
\* flush() calls and responses, no event is in more than one batch that the
\* sink acknowledged with success.
C27_NoDoubleDelivery ==
    [][(last'.op = "response" /\ last'.outcome = "ok") => AcksFreshBatch]_vars

\* Nothing is buffered, in memory or in localStorage, and telemetry is on.
Drained ==
    /\ buffer.items = <<>>
    /\ getBuffered.items = <<>>
    /\ isEnabled

\* C28: if the sink answers every submission with success, the timer keeps
\* firing and logging stops, then the buffer and the persisted snapshot
\* eventually become empty, stay empty, and the scheduler is still ENABLED.
C28_DrainsEventually ==
    ([]<><<nextId' # nextId>>_vars) \/ <>[]Drained

\* Every logged event has been flushed and the buffer is empty again.
C28_Witness ==
    /\ Drained
    /\ Len(enqueued) = MaxEvents
    /\ removed = Ids(enqueued)
    /\ inflight = <<>>

\* C29: the scheduler goes from ENABLED to DISABLED only when a submission
\* failed (network error or non-2xx response): a flush whose submission the
\* sink acknowledged leaves isEnabled() true, whatever happens while the
\* acknowledged prefix is removed and persisted again.
C29_DisabledOnlyBySinkFailure ==
    [][/\ (isEnabled /\ ~isEnabled') =>
              (last'.op = "response" /\ last'.outcome \in Failures)
       /\ (isEnabled /\ last'.op = "response" /\ last'.outcome = "ok") => isEnabled']_vars

\* C30: in every batch submitted to the sink, the session identifier of the
\* envelope equals the session field of every event of the batch, also when
\* the buffer was loaded from localStorage in a later browsing session.
C30_EnvelopeSessionMatchesEvents ==
    \A i \in 1..Len(inflight) :
        \A j \in 1..Len(inflight[i].batch) :
            inflight[i].batch[j].session = inflight[i].session

=============================================================================
